---- MODULE Spec2Model ----
(***************************************************************************)
(* Model of the photogrammetry viewer of src/html/VisualFotScript.js:      *)
(* the OBJ loader (OBJLoader.load / OBJLoader.parse), the viewer session   *)
(* (loadOBJ, clearModel, loadAndApplyTexture, the loading overlay) and the *)
(* orbit controller (OrbitControls and the animation loop).                *)
(*                                                                         *)
(* Numbers.  JavaScript numbers are modelled in fixed point, every         *)
(* operation rounding to the nearest representable value as IEEE           *)
(* arithmetic does:                                                        *)
(*   angles     in units of pi/PI radians,                                 *)
(*   lengths    in units of 1/LenOne  scene units,                         *)
(*   zoom scale in units of 1/ScaleOne,                                    *)
(*   numbers read from a mesh text in units of 1/One, or NaN.              *)
(***************************************************************************)
EXTENDS Integers, Sequences, FiniteSets, TLC

(***************************************************************************)
(* Bounds of the model.                                                    *)
(***************************************************************************)
MaxLines == 5        \* lines of a mesh text handed to parse
MaxLoads == 3        \* loadOBJ requests of one session
MaxTexLoads == 2     \* loadAndApplyTexture requests of one session
MaxEvents == 5       \* events (handler and callback runs) of one session
MaxFrames == 60     \* update() calls of a run without input

(***************************************************************************)
(* Arithmetic helpers.                                                     *)
(***************************************************************************)
Abs(n) == IF n < 0 THEN -n ELSE n

Max(a, b) == IF a >= b THEN a ELSE b

Min(a, b) == IF a <= b THEN a ELSE b

\* n / d rounded to the nearest integer (d > 0), ties away from zero.
RoundDiv(n, d) ==
    IF n >= 0 THEN (n + d \div 2) \div d
              ELSE -(((-n) + d \div 2) \div d)

(***************************************************************************)
(* OBJLoader.parse                                                         *)
(*                                                                         *)
(* A mesh text is a sequence of lines.  A line is [kind, parts]: kind is   *)
(* the prefix the line starts with after trim() and parts are the          *)
(* whitespace-separated tokens after the prefix.  A numeric token is       *)
(* [t |-> "num", n |-> k] (the number k/One) or [t |-> "junk"] (text that  *)
(* is no number).  A face token is the sequence of its '/'-separated       *)
(* fields, each a numeric token, junk, or [t |-> "empty"] (the empty       *)
(* string).                                                                *)
(***************************************************************************)
One == 10

Num(k) == [t |-> "num", n |-> k]

Junk == [t |-> "junk", n |-> 0]

Empty == [t |-> "empty", n |-> 0]

Undefined == [t |-> "undefined", n |-> 0]

\* A JavaScript number: a finite value or NaN.
F(k) == [nan |-> FALSE, v |-> k]

NaN == [nan |-> TRUE, v |-> 0]

\* parts[k] of a JavaScript array: undefined past the end.
At(parts, k) == IF k >= 1 /\ k <= Len(parts) THEN parts[k] ELSE Undefined

\* parseFloat(token): the number, NaN for undefined or non-numeric text.
ParseFloat(tok) == IF tok.t = "num" THEN F(tok.n) ELSE NaN

\* parseInt(field) for a face index field written as a whole number.
ParseInt(tok) == IF tok.t = "num" THEN F(tok.n) ELSE NaN

\* The V of a vt record taken as written.
Unflipped(x) == x

\* 1.0 - x
OneMinus(x) == IF x.nan THEN NaN ELSE F(One - x.v)

\* The pools after the line scan, lines 253-286.
RECURSIVE ScanLines(_, _)
ScanLines(lines, pools) ==
    IF lines = << >> THEN pools
    ELSE
        LET line == Head(lines)
            p == line.parts
            next ==
                CASE line.kind = "v" ->
                        [pools EXCEPT !.vertices = @ \o
                            << ParseFloat(At(p, 1)), ParseFloat(At(p, 2)),
                               ParseFloat(At(p, 3)) >>]
                  [] line.kind = "vn" ->
                        [pools EXCEPT !.normals = @ \o
                            << ParseFloat(At(p, 1)), ParseFloat(At(p, 2)),
                               ParseFloat(At(p, 3)) >>]
                  [] line.kind = "vt" ->
                        [pools EXCEPT !.uvs = @ \o
                            << ParseFloat(At(p, 1)),
                               OneMinus(ParseFloat(At(p, 2))) >>]
                  [] line.kind = "f" ->
                        [pools EXCEPT !.faces = @ \o p]
                  [] OTHER -> pools
        IN  ScanLines(Tail(lines), next)

EmptyPools == [vertices |-> << >>, normals |-> << >>, uvs |-> << >>,
               faces |-> << >>]

\* A field of a face token is used when it is present and not the empty string.
Present(tok) == tok.t # "undefined" /\ tok.t # "empty"

\* The offset computed without the conversion of the 1-based index.
PoolIndexOneBased(tok, width) ==
    LET k == ParseInt(tok) IN IF k.nan THEN NaN ELSE F(k.v * width)

\* (parseInt(field) - 1) * width, the 0-based offset into a pool, or NaN.
PoolIndex(tok, width) ==
    LET k == ParseInt(tok) IN IF k.nan THEN NaN ELSE F((k.v - 1) * width)

\* idx >= 0 && idx < pool.length (false for NaN).
InPool(idx, pool) == ~idx.nan /\ idx.v >= 0 /\ idx.v < Len(pool)

\* pool[idx], ..., pool[idx + width - 1] (0-based idx).
Slice(pool, idx, width) == [k \in 1..width |-> pool[idx + k]]

\* The corner loop with a corner out of range padded with NaN instead of
\* dropped.
ResolveCornerPadded(corner, pools, out) ==
    LET vIdx == PoolIndex(At(corner, 1), 3)
        uvIdx == PoolIndex(At(corner, 2), 2)
        nIdx == PoolIndex(At(corner, 3), 3)
    IN  [positions |->
            IF InPool(vIdx, pools.vertices)
            THEN out.positions \o Slice(pools.vertices, vIdx.v, 3)
            ELSE out.positions \o << NaN, NaN, NaN >>,
         uvsArray |->
            IF Present(At(corner, 2)) /\ InPool(uvIdx, pools.uvs)
            THEN out.uvsArray \o Slice(pools.uvs, uvIdx.v, 2)
            ELSE out.uvsArray,
         normalsArray |->
            IF Present(At(corner, 3)) /\ InPool(nIdx, pools.normals)
            THEN out.normalsArray \o Slice(pools.normals, nIdx.v, 3)
            ELSE out.normalsArray,
         threw |-> FALSE]

\* One corner of the resolve loop, lines 301-320.
ResolveCorner(corner, pools, out) ==
    LET vIdx == PoolIndex(At(corner, 1), 3)
        uvIdx == PoolIndex(At(corner, 2), 2)
        nIdx == PoolIndex(At(corner, 3), 3)
    IN  [positions |->
            IF InPool(vIdx, pools.vertices)
            THEN out.positions \o Slice(pools.vertices, vIdx.v, 3)
            ELSE out.positions,
         uvsArray |->
            IF Present(At(corner, 2)) /\ InPool(uvIdx, pools.uvs)
            THEN out.uvsArray \o Slice(pools.uvs, uvIdx.v, 2)
            ELSE out.uvsArray,
         normalsArray |->
            IF Present(At(corner, 3)) /\ InPool(nIdx, pools.normals)
            THEN out.normalsArray \o Slice(pools.normals, nIdx.v, 3)
            ELSE out.normalsArray,
         threw |-> FALSE]

\* The resolve loop ending quietly at a group with fewer than 3 corners.
RECURSIVE ResolveFromLenient(_, _, _, _)
ResolveFromLenient(c, j, pools, out) ==
    IF c > Len(pools.faces) THEN out
    ELSE ResolveFromLenient(c + 1, (j + 1) % 3, pools,
                            ResolveCorner(pools.faces[c], pools, out))

\* The resolve loop, lines 295-322, from corner c (1-based) on: faces[i + j]
\* is undefined past the end and undefined.split throws a TypeError.
RECURSIVE ResolveFrom(_, _, _, _)
ResolveFrom(c, j, pools, out) ==
    IF j = 0 /\ c > Len(pools.faces) THEN out
    ELSE IF c > Len(pools.faces) THEN [out EXCEPT !.threw = TRUE]
    ELSE ResolveFrom(c + 1, (j + 1) % 3, pools,
                     ResolveCorner(pools.faces[c], pools, out))

EmptyBuffers == [positions |-> << >>, uvsArray |-> << >>,
                 normalsArray |-> << >>, threw |-> FALSE]

(***************************************************************************)
(* geometry.computeVertexNormals(), line 330, of the rendering library on  *)
(* a geometry without index: every three vertices of the position buffer   *)
(* are a triangle, whose normal (pC - pB) x (pA - pB) is written to its     *)
(* three vertices and then normalized. Buffer numbers are in units of       *)
(* 1 / One; a read past the end of a buffer gives undefined, NaN in         *)
(* arithmetic, and a write past the end is ignored.                         *)
(***************************************************************************)
NumSub(a, b) == IF a.nan \/ b.nan THEN NaN ELSE F(a.v - b.v)

NumMul(a, b) == IF a.nan \/ b.nan THEN NaN ELSE F(a.v * b.v)

\* Vector3.fromBufferAttribute(position, k - 1), k counted from 1.
Vertex(position, k) ==
    IF 3 * k <= Len(position)
    THEN << position[3 * k - 2], position[3 * k - 1], position[3 * k] >>
    ELSE << NaN, NaN, NaN >>

VecSub(p, q) ==
    << NumSub(p[1], q[1]), NumSub(p[2], q[2]), NumSub(p[3], q[3]) >>

Cross(a, b) ==
    << NumSub(NumMul(a[2], b[3]), NumMul(a[3], b[2])),
       NumSub(NumMul(a[3], b[1]), NumMul(a[1], b[3])),
       NumSub(NumMul(a[1], b[2]), NumMul(a[2], b[1])) >>

\* The integer nearest below the square root of n, n <= hi * hi.
Isqrt(n, hi) == CHOOSE r \in 0..hi : r * r <= n /\ n < (r + 1) * (r + 1)

\* Vector3.normalize() of a product c of two buffer vectors (its numbers
\* are in units of 1 / One^2): divideScalar(length() || 1) leaves the zero
\* vector and a vector with a NaN as they are.
Normalize(c) ==
    LET ax == Abs(c[1].v)
        ay == Abs(c[2].v)
        az == Abs(c[3].v)
        Sign(n) == IF n > 0 THEN 1 ELSE IF n < 0 THEN -1 ELSE 0
        Plain(x) == IF x.nan THEN NaN ELSE F(RoundDiv(x.v, One))
    IN  IF c[1].nan \/ c[2].nan \/ c[3].nan
        THEN << Plain(c[1]), Plain(c[2]), Plain(c[3]) >>
        ELSE IF Max(ax, Max(ay, az)) = ax + ay + az
        THEN << F(Sign(c[1].v) * One), F(Sign(c[2].v) * One),
                F(Sign(c[3].v) * One) >>
        ELSE LET len == Isqrt(ax * ax + ay * ay + az * az, ax + ay + az)
             IN  << F(RoundDiv(c[1].v * One, len)),
                    F(RoundDiv(c[2].v * One, len)),
                    F(RoundDiv(c[3].v * One, len)) >>

\* The normal of the triangle g (counted from 0) of the position buffer.
TriangleNormal(position, g) ==
    LET pA == Vertex(position, 3 * g + 1)
        pB == Vertex(position, 3 * g + 2)
        pC == Vertex(position, 3 * g + 3)
    IN  Normalize(Cross(VecSub(pC, pB), VecSub(pA, pB)))

ComputeVertexNormals(position) ==
    [i \in 1..Len(position) |->
        TriangleNormal(position, (i - 1) \div 9)[((i - 1) % 3) + 1]]

\* The geometry without a normal attribute: computeVertexNormals is not run.
NormalAttributeFromRecordsOnly(normalsArray, positions) == normalsArray

\* The normal attribute of the geometry, lines 326-331.
NormalAttribute(normalsArray, positions) ==
    IF Len(normalsArray) > 0 THEN normalsArray
    ELSE ComputeVertexNormals(positions)

\* parse(text): [threw |-> TRUE] or the mesh: the position buffer, the normal
\* buffer (taken from the vn records when hasNormalAttr, computed by the
\* rendering library otherwise) and the uv buffer when non-empty.
Parse(text) ==
    LET pools == ScanLines(text, EmptyPools)
        out == ResolveFrom(1, 0, pools, EmptyBuffers)
    IN  IF out.threw
        THEN [threw |-> TRUE, position |-> << >>, normal |-> << >>,
              hasNormalAttr |-> FALSE, uv |-> << >>, hasUV |-> FALSE]
        ELSE [threw |-> FALSE,
              position |-> out.positions,
              normal |-> NormalAttribute(out.normalsArray, out.positions),
              hasNormalAttr |-> Len(out.normalsArray) > 0,
              uv |-> out.uvsArray,
              hasUV |-> Len(out.uvsArray) > 0]

(***************************************************************************)
(* OrbitControls: constants of the constructor and of init().              *)
(***************************************************************************)
PI == 60000                  \* Math.PI in angle units

LenOne == 1000               \* 1.0 in length units

ScaleOne == 1000             \* scale = 1 in zoom-scale units

MinDistance == 500           \* minDistance = 0.5

MaxDistance == 1000000       \* maxDistance = 1000

MinPolarAngle == 0           \* minPolarAngle = 0

MaxPolarAngle == PI          \* maxPolarAngle = Math.PI

DampingPct == 8              \* dampingFactor = 0.08, in hundredths

AutoRotateSpeedTenths == 3   \* autoRotateSpeed = 0.3, in tenths

DollyPct == 95               \* the dolly factor 0.95, in hundredths

SphericalEPS == 1            \* the smallest positive angle (makeSafe's EPS)

ClientHeight == 600          \* domElement.clientHeight, pixels

\* 2 * Math.PI / 60 / 60 * autoRotateSpeed
AutoRotationAngle == RoundDiv(2 * PI * AutoRotateSpeedTenths, 60 * 60 * 10)

\* Math.max(lo, Math.min(hi, x))
Clamp(lo, hi, x) == Max(lo, Min(hi, x))

\* Spherical.makeSafe(): phi kept off the poles.
MakeSafe(phi) == Max(SphericalEPS, Min(PI - SphericalEPS, phi))

\* An angle brought into (-PI, PI], as Math.atan2 returns it.
WrapAngle(a) ==
    LET m == ((a + PI) % (2 * PI)) - PI IN IF m = -PI THEN PI ELSE m

\* spherical.setFromVector3(offset), the camera offset being kept by its
\* spherical coordinates: a zero vector gives theta = phi = 0, otherwise
\* theta = atan2(x, z) and phi = acos(clamp(y / radius, -1, 1)).
SetFromVector3(off) ==
    IF off.radius = 0 THEN [radius |-> 0, phi |-> 0, theta |-> 0]
    ELSE [radius |-> off.radius,
          phi |-> Clamp(0, PI, off.phi),
          theta |-> WrapAngle(off.theta)]

\* rotateLeft(angle), rotateUp(angle), lines 43-49.
RotateLeft(delta, angle) == [delta EXCEPT !.theta = @ - angle]

RotateUp(delta, angle) == [delta EXCEPT !.phi = @ - angle]

\* dollyIn(0.95): scale /= 0.95;  dollyOut(0.95): scale *= 0.95.
DollyIn(sc) == RoundDiv(sc * 100, DollyPct)

DollyOut(sc) == RoundDiv(sc * DollyPct, 100)

\* The decay with the sign of the damping factor inverted.
DampAmplified(x) == RoundDiv(x * (100 + DampingPct), 100)

\* x * (1 - dampingFactor)
Damp(x) == RoundDiv(x * (100 - DampingPct), 100)

\* The pending rotation after the auto-rotate injection, lines 174-176.
Injected(delta, st, ar) ==
    IF ar /\ st = "NONE" THEN RotateLeft(delta, AutoRotationAngle) ELSE delta

\* The polar angle without the clamp and makeSafe.
NewPhiUnclamped(phi, dphi) == phi + dphi

\* spherical.phi after lines 179-181.
NewPhi(phi, dphi) ==
    MakeSafe(Clamp(MinPolarAngle, MaxPolarAngle, phi + dphi))

\* The radius without the clamp.
NewRadiusUnclamped(radius, sc) == RoundDiv(radius * sc, ScaleOne)

\* spherical.radius after lines 182-183.
NewRadius(radius, sc) ==
    Clamp(MinDistance, MaxDistance, RoundDiv(radius * sc, ScaleOne))

\* The damping step with the pending rotation kept when damping is disabled.
DampedKept(delta, damping) ==
    IF damping THEN [theta |-> Damp(delta.theta), phi |-> Damp(delta.phi)]
    ELSE delta

\* The pending rotation after lines 191-198.
Damped(delta, damping) ==
    IF damping THEN [theta |-> Damp(delta.theta), phi |-> Damp(delta.phi)]
    ELSE [theta |-> 0, phi |-> 0]

DampedPan(pan, damping) ==
    IF damping THEN [x |-> Damp(pan.x), y |-> Damp(pan.y)]
    ELSE [x |-> 0, y |-> 0]

\* update(), lines 168-207, as a function of the controller's state
\* o = [cam, delta, scale, pan, target, state, autoRotate, damping].
\* Pan vectors and the target are kept by their components along the
\* camera's right and up axes.
Update(o) ==
    LET s == SetFromVector3(o.cam)
        d == Injected(o.delta, o.state, o.autoRotate)
    IN  [cam |-> [radius |-> NewRadius(s.radius, o.scale),
                  phi |-> NewPhi(s.phi, d.phi),
                  theta |-> WrapAngle(s.theta + d.theta)],
         delta |-> Damped(d, o.damping),
         scale |-> ScaleOne,
         pan |-> DampedPan(o.pan, o.damping),
         target |-> [x |-> o.target.x + o.pan.x, y |-> o.target.y + o.pan.y]]

(***************************************************************************)
(* State.                                                                  *)
(***************************************************************************)
VARIABLES
    \* the viewer session (module-level state and the DOM overlay)
    loads,            \* the OBJLoader.load calls made by loadOBJ, in order;
                      \* the object parsed by load i is model i
    texLoads,         \* the TextureLoader.load calls; texture t is call t;
                      \* applied: the texture was bound to some material
    currentModel,     \* [kind |-> "undefined" | "null" | "object", id]
    sceneModels,      \* the models that are children of the scene
    disposedModels,   \* the models whose geometry and material are disposed
    loadedTexture,    \* 0 (null) or a texture
    disposedTextures, \* the textures on which dispose() was called
    loadingShown,     \* the loading overlay has class 'show'
    hideTimers,       \* pending 500 ms timers of completed loads
    renders,          \* renders outside the animation loop (line 641)
    \* the orbit controller and the camera
    state,            \* "NONE" | "ROTATE" | "PAN"
    sphericalDelta,   \* [theta, phi], the pending rotation
    scale,
    panOffset,        \* [x, y]
    rotateStart,      \* [x, y]
    panStart,         \* [x, y]
    cameraPos,        \* camera.position - target as [radius, phi, theta]
    target,           \* [x, y]
    autoRotate,
    enableDamping,
    docListeners,     \* mousemove/mouseup are registered on document
    updatesSinceRender, \* update() calls since the last render of animate()
    updatesAtRender,  \* that count as the last render of animate() found it
    lastEvent,        \* the handler that ran last and the mode it found
    nEvents,          \* events delivered so far
    \* a text handed to OBJLoader.parse and the result
    text,
    mesh

sessionVars == << loads, texLoads, currentModel, sceneModels, disposedModels,
                  loadedTexture, disposedTextures, loadingShown, hideTimers,
                  renders >>

cameraVars == << sphericalDelta, scale, panOffset, cameraPos, target,
                 updatesSinceRender >>

inputVars == << state, rotateStart, panStart, docListeners >>

orbitVars == << cameraVars, inputVars, autoRotate, enableDamping,
                updatesAtRender, lastEvent >>

parseVars == << text, mesh >>

vars == << sessionVars, orbitVars, parseVars, nEvents >>

(***************************************************************************)
(* Mesh texts.                                                             *)
(***************************************************************************)
VLine(a, b, c) == [kind |-> "v", parts |-> << Num(a), Num(b), Num(c) >>]

VtLine(a, b) == [kind |-> "vt", parts |-> << Num(a), Num(b) >>]

\* A face line whose corners carry a position index only.
FLine(idx) == [kind |-> "f", parts |-> [k \in 1..Len(idx) |-> << Num(idx[k]) >>]]

\* A face line whose corners are pos/uv.
FLineUV(idx) ==
    [kind |-> "f",
     parts |-> [k \in 1..Len(idx) |-> << Num(idx[k][1]), Num(idx[k][2]) >>]]

VnLine(a, b, c) == [kind |-> "vn", parts |-> << Num(a), Num(b), Num(c) >>]

\* A face line given by its corners, each the fields of pos/uv/normal (a
\* trailing field that is not written is Undefined or left out).
FLineCorners(cs) == [kind |-> "f", parts |-> [k \in 1..Len(cs) |-> cs[k]]]

\* The files offered to loadOBJ: a small triangle without texture
\* coordinates, a large textured triangle, a quad and a triangle with
\* malformed v lines.
SmallTriangle ==
    << VLine(0, 0, 0), VLine(1, 0, 0), VLine(0, 1, 0), FLine(<< 1, 2, 3 >>) >>

LargeTexturedTriangle ==
    << VLine(0, 0, 0), VLine(4000, 0, 0), VLine(0, 4000, 0), VtLine(0, 3),
       FLineUV(<< << 1, 1 >>, << 2, 1 >>, << 3, 1 >> >>) >>

Quad ==
    << VLine(0, 0, 0), VLine(50, 0, 0), VLine(50, 50, 0), VLine(0, 50, 0),
       FLine(<< 1, 2, 3, 4 >>) >>

\* A triangle whose v lines carry a non-numeric token ('v 0 abc 0') and a
\* missing one ('v 1 0').
MalformedTriangle ==
    << [kind |-> "v", parts |-> << Num(0), Junk, Num(0) >>],
       [kind |-> "v", parts |-> << Num(1), Num(0) >>],
       VLine(0, 1, 0), FLine(<< 1, 2, 3 >>) >>

ObjFiles == { SmallTriangle, LargeTexturedTriangle, Quad, MalformedTriangle }

\* The files whose v lines are all numeric.
WellFormedFiles == { SmallTriangle, LargeTexturedTriangle, Quad }

(***************************************************************************)
(* The camera placed by init(), resetCamera() and centerModel().           *)
(***************************************************************************)
\* camera.position.set(5, 5, 5): radius 5 * sqrt(3), phi = acos(1 / sqrt(3)).
HomeRadius == 8660

HomePhi == 18245

HomeCamera == [radius |-> HomeRadius, phi |-> HomePhi, theta |-> PI \div 4]

\* The coordinates of axis a (1, 2, 3) of a position buffer that are numbers.
AxisValues(position, a) ==
    { position[k].v : k \in { i \in 1..Len(position) :
                                  i % 3 = a % 3 /\ ~position[i].nan } }

SetMax(S) == CHOOSE m \in S : \A n \in S : n <= m

SetMin(S) == CHOOSE m \in S : \A n \in S : m <= n

Extent(S) == IF S = {} THEN 0 ELSE SetMax(S) - SetMin(S)

\* Math.max(size.x, size.y, size.z) of the model's bounding box, in units of
\* 1/One.
MaxDim(position) ==
    Max(Extent(AxisValues(position, 1)),
        Max(Extent(AxisValues(position, 2)), Extent(AxisValues(position, 3))))

\* camera.position.set(d, 0.7 d, d) with d = maxDim / (2 tan(fov/2)) * 1.5 and
\* fov = 45 degrees: radius = d * sqrt(2.49) = maxDim * 2.857 and
\* phi = acos(0.7 / sqrt(2.49)).
CenterRadiusMilli == 2857

CenterPhi == 21222

CenterCamera(maxDim) ==
    [radius |-> RoundDiv(RoundDiv(maxDim * LenOne, One) * CenterRadiusMilli, 1000),
     phi |-> CenterPhi,
     theta |-> PI \div 4]

(***************************************************************************)
(* Initial state: after init() and before the first animation frame.       *)
(***************************************************************************)
NoMesh == [threw |-> FALSE, position |-> << >>, normal |-> << >>,
           hasNormalAttr |-> FALSE, uv |-> << >>, hasUV |-> FALSE]

InitSession ==
    /\ loads = << >>
    /\ texLoads = << >>
    /\ currentModel = [kind |-> "undefined", id |-> 0]
    /\ sceneModels = {}
    /\ disposedModels = {}
    /\ loadedTexture = 0
    /\ disposedTextures = {}
    /\ loadingShown = FALSE
    /\ hideTimers = 0
    /\ renders = 0

InitOrbit ==
    /\ state = "NONE"
    /\ sphericalDelta = [theta |-> 0, phi |-> 0]
    /\ scale = ScaleOne
    /\ panOffset = [x |-> 0, y |-> 0]
    /\ rotateStart = [x |-> 0, y |-> 0]
    /\ panStart = [x |-> 0, y |-> 0]
    /\ cameraPos = HomeCamera
    /\ target = [x |-> 0, y |-> 0]
    /\ autoRotate = TRUE
    /\ enableDamping = TRUE
    /\ docListeners = FALSE
    /\ updatesSinceRender = 0
    /\ updatesAtRender = 1
    /\ lastEvent = [op |-> "init", from |-> "NONE", button |-> 0]
    /\ nEvents = 0

InitParse ==
    /\ text = << >>
    /\ mesh = [done |-> FALSE, result |-> NoMesh]

Init == InitSession /\ InitOrbit /\ InitParse

(***************************************************************************)
(* The controller's update() applied to the current state.                 *)
(***************************************************************************)
Controller ==
    [cam |-> cameraPos, delta |-> sphericalDelta, scale |-> scale,
     pan |-> panOffset, target |-> target, state |-> state,
     autoRotate |-> autoRotate, damping |-> enableDamping]

\* scope.update() on the controller o.
DoUpdate(o) ==
    LET u == Update(o)
    IN  /\ cameraPos' = u.cam
        /\ sphericalDelta' = u.delta
        /\ scale' = u.scale
        /\ panOffset' = u.pan
        /\ target' = u.target
        /\ updatesSinceRender' = updatesSinceRender + 1

\* One event of the session is delivered.
Tick == nEvents < MaxEvents /\ nEvents' = nEvents + 1

\* centerModel(model), lines 447-465: the camera is placed from the model's
\* bounding box, the target is reset and update() runs.
CenterModel(position) ==
    DoUpdate([Controller EXCEPT !.cam = CenterCamera(MaxDim(position)),
                                !.target = [x |-> 0, y |-> 0]])

(***************************************************************************)
(* The viewer session.                                                     *)
(***************************************************************************)
IsObject(m) == m.kind = "object"

\* clearModel(), lines 430-445: the pair << scene children, disposed >> after.
ClearedScene ==
    IF IsObject(currentModel) THEN sceneModels \ { currentModel.id }
    ELSE sceneModels

ClearedDisposed ==
    IF IsObject(currentModel) THEN disposedModels \cup { currentModel.id }
    ELSE disposedModels

ClearedModel ==
    IF IsObject(currentModel) THEN [kind |-> "null", id |-> 0]
    ELSE currentModel

\* Texture loads that a pending loadOBJ will still start.
PendingTextureFiles ==
    Cardinality({ i \in 1..Len(loads) :
                    loads[i].pc = "inflight" /\ loads[i].textureFile })

\* window.loadOBJ(objFile, mtlFile, textureFile), lines 529-575, up to the
\* return of objLoader.load (xhr.send()).
LoadOBJ(objFile, textureFile) ==
    /\ Tick
    /\ Len(loads) < MaxLoads
    /\ textureFile => Len(texLoads) + PendingTextureFiles < MaxTexLoads
    /\ loadingShown' = TRUE
    /\ sceneModels' = ClearedScene
    /\ disposedModels' = ClearedDisposed
    /\ currentModel' = ClearedModel
    /\ loads' = Append(loads, [pc |-> "inflight", text |-> objFile,
                               textureFile |-> textureFile,
                               onLoadCalls |-> 0, onErrorCalls |-> 0,
                               hasUV |-> FALSE, map |-> 0])
    /\ UNCHANGED << texLoads, loadedTexture, disposedTextures, hideTimers,
                    renders, orbitVars, parseVars >>

\* The error callback of loadOBJ, lines 569-573, for load i.
OnErrorCallback(i, ls) ==
    /\ loads' = [ls EXCEPT ![i].pc = "done", ![i].onErrorCalls = @ + 1]
    /\ loadingShown' = FALSE

\* material.map of model m after applyTextureToModel(m, texture), lines
\* 619-642: only a mesh with a uv attribute takes the texture.
AppliedMap(hasUV, oldMap, texture) == IF hasUV THEN texture ELSE oldMap

\* xhr.onload of load i, lines 226-237, with the success callback of loadOBJ,
\* lines 544-564.  status200: xhr.status === 200.  callbackThrows: the
\* success callback throws from the page updates that end centerModel
\* (lines 463-464).
XhrOnLoad(i, status200, callbackThrows) ==
    /\ i \in 1..Len(loads)
    /\ loads[i].pc = "inflight"
    /\ Tick
    /\ LET m == Parse(loads[i].text)
           startsTexture == loads[i].textureFile
           applies == ~startsTexture /\ loadedTexture # 0
           called == [loads EXCEPT ![i].onLoadCalls = @ + 1,
                                   ![i].pc = "done",
                                   ![i].hasUV = m.hasUV,
                                   ![i].map = IF applies
                                              THEN AppliedMap(m.hasUV, 0, loadedTexture)
                                              ELSE 0]
       IN  IF ~status200 \/ m.threw
           THEN /\ OnErrorCallback(i, loads)
                /\ UNCHANGED << texLoads, currentModel, sceneModels,
                                disposedModels, loadedTexture,
                                disposedTextures, hideTimers, renders,
                                orbitVars >>
           ELSE /\ currentModel' = [kind |-> "object", id |-> i]
                /\ texLoads' =
                      IF startsTexture
                      THEN Append(texLoads, [pc |-> "inflight",
                                             isModelLoaded |-> TRUE,
                                             applied |-> FALSE])
                      ELSE IF applies /\ m.hasUV
                      THEN [texLoads EXCEPT ![loadedTexture].applied = TRUE]
                      ELSE texLoads
                /\ renders' = IF applies THEN renders + 1 ELSE renders
                /\ sceneModels' = sceneModels \cup { i }
                /\ CenterModel(m.position)
                /\ IF callbackThrows
                   THEN /\ OnErrorCallback(i, called)
                        /\ UNCHANGED hideTimers
                   ELSE /\ loads' = called
                        /\ hideTimers' = hideTimers + 1
                        /\ UNCHANGED loadingShown
                /\ UNCHANGED << disposedModels, loadedTexture,
                                disposedTextures, inputVars, autoRotate,
                                enableDamping, updatesAtRender, lastEvent >>
    /\ UNCHANGED parseVars

\* xhr.onerror = onError, line 239: the transport fails.
XhrOnError(i) ==
    /\ i \in 1..Len(loads)
    /\ loads[i].pc = "inflight"
    /\ Tick
    /\ OnErrorCallback(i, loads)
    /\ UNCHANGED << texLoads, currentModel, sceneModels, disposedModels,
                    loadedTexture, disposedTextures, hideTimers, renders,
                    orbitVars, parseVars >>

\* The 500 ms timer of a completed load, lines 560-563.
HideTimer ==
    /\ hideTimers > 0
    /\ Tick
    /\ hideTimers' = hideTimers - 1
    /\ loadingShown' = FALSE
    /\ UNCHANGED << loads, texLoads, currentModel, sceneModels, disposedModels,
                    loadedTexture, disposedTextures, renders, orbitVars,
                    parseVars >>

\* window.loadAndApplyTexture(file) called from the texture file input or a
\* drop, lines 577-588, up to the return of textureLoader.load.
LoadAndApplyTexture ==
    /\ Tick
    /\ Len(texLoads) + PendingTextureFiles < MaxTexLoads
    /\ LET isModelLoaded == currentModel.kind # "null"
       IN  /\ texLoads' = Append(texLoads, [pc |-> "inflight",
                                            isModelLoaded |-> isModelLoaded,
                                            applied |-> FALSE])
           /\ loadingShown' = IF isModelLoaded THEN loadingShown ELSE TRUE
    /\ UNCHANGED << loads, currentModel, sceneModels, disposedModels,
                    loadedTexture, disposedTextures, hideTimers, renders,
                    orbitVars, parseVars >>

\* The load callback of texture t, lines 589-612.
TextureOnLoad(t) ==
    /\ t \in 1..Len(texLoads)
    /\ texLoads[t].pc = "inflight"
    /\ Tick
    /\ texLoads' = [texLoads EXCEPT
                        ![t].pc = "done",
                        ![t].applied = IsObject(currentModel)
                                       /\ loads[currentModel.id].hasUV]
    /\ loadedTexture' = t
    /\ IF IsObject(currentModel)
       THEN /\ loads' = [loads EXCEPT ![currentModel.id].map =
                            AppliedMap(loads[currentModel.id].hasUV, @, t)]
            /\ renders' = renders + 1
       ELSE UNCHANGED << loads, renders >>
    /\ loadingShown' = IF texLoads[t].isModelLoaded THEN loadingShown ELSE FALSE
    /\ UNCHANGED << currentModel, sceneModels, disposedModels,
                    disposedTextures, hideTimers, orbitVars, parseVars >>

\* The error callback of texture t, lines 612-616.
TextureOnError(t) ==
    /\ t \in 1..Len(texLoads)
    /\ texLoads[t].pc = "inflight"
    /\ Tick
    /\ texLoads' = [texLoads EXCEPT ![t].pc = "failed"]
    /\ loadingShown' = FALSE
    /\ UNCHANGED << loads, currentModel, sceneModels, disposedModels,
                    loadedTexture, disposedTextures, hideTimers, renders,
                    orbitVars, parseVars >>

NextSession ==
    \/ \E f \in ObjFiles, tf \in BOOLEAN : LoadOBJ(f, tf)
    \/ \E i \in 1..MaxLoads, ok \in BOOLEAN, th \in BOOLEAN : XhrOnLoad(i, ok, th)
    \/ \E i \in 1..MaxLoads : XhrOnError(i)
    \/ HideTimer
    \/ LoadAndApplyTexture
    \/ \E t \in 1..MaxTexLoads : TextureOnLoad(t)
    \/ \E t \in 1..MaxTexLoads : TextureOnError(t)

SpecSession == Init /\ [][NextSession]_vars

\* The OBJ loads alone: loadOBJ without a texture file, the end of a
\* transfer and the hide timer.
NextLoads ==
    \/ \E f \in ObjFiles : LoadOBJ(f, FALSE)
    \/ \E i \in 1..MaxLoads, ok \in BOOLEAN, th \in BOOLEAN : XhrOnLoad(i, ok, th)
    \/ \E i \in 1..MaxLoads : XhrOnError(i)
    \/ HideTimer

SpecLoads == Init /\ [][NextLoads]_vars

(***************************************************************************)
(* The orbit controller's handlers and the animation loop.                 *)
(***************************************************************************)
\* Pointer positions (clientX, clientY) and wheel deltas of the events.
Pointers == { [x |-> 0, y |-> 0], [x |-> 40, y |-> ClientHeight],
              [x |-> 7, y |-> 13] }

Buttons == { 0, 1, 2 }

WheelDeltas == { -100, 0, 100 }

TanHalfFovMilli == 414       \* Math.tan((45 / 2) * Math.PI / 180)

\* The angle for the pixel delta taken without its factor 0.5.
RotateAngleUnscaled(pixels) == RoundDiv(2 * PI * pixels, ClientHeight)

\* The angle 2 * Math.PI * d / clientHeight for d = 0.5 * pixels.
RotateAngle(pixels) == RoundDiv(2 * PI * pixels, 2 * ClientHeight)

\* handleMouseMoveRotate(event) up to its update(), lines 91-97: the pending
\* rotation after the pointer moved from rotateStart to p.
Rotated(delta, from, p) ==
    RotateUp(RotateLeft(delta, RotateAngle(p.x - from.x)),
             RotateAngle(p.y - from.y))

\* pan(deltaX, deltaY), lines 65-73, for deltas of 0.5 * pixels: panLeft
\* subtracts along the camera's right axis, panUp adds along its up axis.
Panned(pan, radius, from, p) ==
    LET targetDistance == RoundDiv(radius * TanHalfFovMilli, 1000)
    IN  [x |-> pan.x - RoundDiv((p.x - from.x) * targetDistance, ClientHeight),
         y |-> pan.y + RoundDiv((p.y - from.y) * targetDistance, ClientHeight)]

\* The interaction mode after onMouseDown, lines 121-127.
ModeAfterDown(st, button) ==
    IF button = 0 THEN "ROTATE" ELSE IF button = 2 THEN "PAN" ELSE st

\* The dolly with the two directions of the wheel exchanged.
DolliedSwapped(sc, deltaY) ==
    IF deltaY < 0 THEN DollyIn(sc)
    ELSE IF deltaY > 0 THEN DollyOut(sc)
    ELSE sc

\* The zoom scale after handleMouseWheel's dolly, lines 110-114.
Dollied(sc, deltaY) ==
    IF deltaY < 0 THEN DollyOut(sc)
    ELSE IF deltaY > 0 THEN DollyIn(sc)
    ELSE sc

\* onMouseDown(event), lines 118-130 (scope.enabled is never cleared).
MouseDown(button, p) ==
    /\ Tick
    /\ state' = ModeAfterDown(state, button)
    /\ rotateStart' = IF button = 0 THEN p ELSE rotateStart
    /\ panStart' = IF button = 2 THEN p ELSE panStart
    /\ docListeners' = TRUE
    /\ lastEvent' = [op |-> "mousedown", from |-> state, button |-> button]
    /\ UNCHANGED << sessionVars, cameraVars, autoRotate, enableDamping,
                    updatesAtRender, parseVars >>

\* onMouseMove(event), lines 132-140, registered on document by onMouseDown.
MouseMove(p) ==
    /\ Tick
    /\ docListeners
    /\ IF state = "ROTATE"
       THEN /\ DoUpdate([Controller EXCEPT
                            !.delta = Rotated(sphericalDelta, rotateStart, p)])
            /\ rotateStart' = p
            /\ UNCHANGED panStart
       ELSE IF state = "PAN"
       THEN /\ DoUpdate([Controller EXCEPT
                            !.pan = Panned(panOffset, cameraPos.radius,
                                           panStart, p)])
            /\ panStart' = p
            /\ UNCHANGED rotateStart
       ELSE UNCHANGED << cameraVars, rotateStart, panStart >>
    /\ lastEvent' = [op |-> "mousemove", from |-> state, button |-> 0]
    /\ UNCHANGED << sessionVars, state, docListeners, autoRotate,
                    enableDamping, updatesAtRender, parseVars >>

\* onMouseUp(), lines 142-146.
MouseUp ==
    /\ Tick
    /\ docListeners
    /\ docListeners' = FALSE
    /\ state' = "NONE"
    /\ lastEvent' = [op |-> "mouseup", from |-> state, button |-> 0]
    /\ UNCHANGED << sessionVars, cameraVars, rotateStart, panStart, autoRotate,
                    enableDamping, updatesAtRender, parseVars >>

\* onMouseWheel(event), lines 148-152, with handleMouseWheel, lines 109-116.
MouseWheel(deltaY) ==
    /\ Tick
    /\ DoUpdate([Controller EXCEPT !.scale = Dollied(scale, deltaY)])
    /\ lastEvent' = [op |-> "wheel", from |-> state, button |-> 0]
    /\ UNCHANGED << sessionVars, inputVars, autoRotate, enableDamping,
                    updatesAtRender, parseVars >>

\* animate(), lines 417-421: one frame of the animation loop.
Animate ==
    /\ Tick
    /\ LET u == Update(Controller)
       IN  /\ cameraPos' = u.cam
           /\ sphericalDelta' = u.delta
           /\ scale' = u.scale
           /\ panOffset' = u.pan
           /\ target' = u.target
    /\ updatesAtRender' = updatesSinceRender + 1
    /\ updatesSinceRender' = 0
    /\ lastEvent' = [op |-> "animate", from |-> state, button |-> 0]
    /\ UNCHANGED << sessionVars, inputVars, autoRotate, enableDamping,
                    parseVars >>

\* window.toggleRotation(), lines 687-692.
ToggleRotation ==
    /\ Tick
    /\ autoRotate' = ~autoRotate
    /\ lastEvent' = [op |-> "toggleRotation", from |-> state, button |-> 0]
    /\ UNCHANGED << sessionVars, cameraVars, inputVars, enableDamping,
                    updatesAtRender, parseVars >>

\* window.resetCamera(), lines 677-685.
ResetCamera ==
    /\ Tick
    /\ IF IsObject(currentModel)
       THEN CenterModel(Parse(loads[currentModel.id].text).position)
       ELSE DoUpdate([Controller EXCEPT !.cam = HomeCamera,
                                        !.target = [x |-> 0, y |-> 0]])
    /\ lastEvent' = [op |-> "resetCamera", from |-> state, button |-> 0]
    /\ UNCHANGED << sessionVars, inputVars, autoRotate, enableDamping,
                    updatesAtRender, parseVars >>

\* The controller, the animation loop and the loads that place the camera
\* (loads of well-formed files without a texture file whose transfer and
\* callback succeed).
NextOrbit ==
    \/ \E b \in Buttons, p \in Pointers : MouseDown(b, p)
    \/ \E p \in Pointers : MouseMove(p)
    \/ MouseUp
    \/ \E dy \in WheelDeltas : MouseWheel(dy)
    \/ Animate
    \/ ToggleRotation
    \/ ResetCamera
    \/ \E f \in WellFormedFiles : LoadOBJ(f, FALSE)
    \/ \E i \in 1..MaxLoads : XhrOnLoad(i, TRUE, FALSE)

SpecOrbit == Init /\ [][NextOrbit]_vars

(***************************************************************************)
(* update() called repeatedly on an idle controller.                       *)
(***************************************************************************)
\* The controller after init() with the public fields enableDamping and
\* autoRotate set either way (the page itself leaves enableDamping true).
InitFrames ==
    /\ InitSession
    /\ InitParse
    /\ state = "NONE"
    /\ sphericalDelta = [theta |-> 0, phi |-> 0]
    /\ scale = ScaleOne
    /\ panOffset = [x |-> 0, y |-> 0]
    /\ rotateStart = [x |-> 0, y |-> 0]
    /\ panStart = [x |-> 0, y |-> 0]
    /\ cameraPos = HomeCamera
    /\ target = [x |-> 0, y |-> 0]
    /\ autoRotate \in BOOLEAN
    /\ enableDamping \in BOOLEAN
    /\ docListeners = FALSE
    /\ updatesSinceRender = 0
    /\ updatesAtRender = 1
    /\ lastEvent = [op |-> "init", from |-> "NONE", button |-> 0]
    /\ nEvents = 0

\* controls.update(), lines 168-207, called with no input event between
\* the calls.
IdleUpdate ==
    /\ updatesSinceRender < MaxFrames
    /\ DoUpdate(Controller)
    /\ UNCHANGED << sessionVars, inputVars, autoRotate, enableDamping,
                    updatesAtRender, lastEvent, nEvents, parseVars >>

NextFrames == IdleUpdate

SpecFrames == InitFrames /\ [][NextFrames]_vars

(***************************************************************************)
(* OBJLoader.parse applied to a text.                                      *)
(***************************************************************************)
\* The lines a text is made of: three v records, triangles over them (one
\* names a fourth record, one the indices 0 and -1), a quad and a line parse
\* ignores.
ParseLines ==
    { VLine(1, 2, 3), VLine(4, 5, 6), VLine(7, 8, 9),
      FLine(<< 1, 2, 3 >>), FLine(<< 3, 1, 2 >>), FLine(<< 1, 2, 4 >>),
      FLine(<< 0, 1, -1 >>), FLine(<< 1, 2, 3, 4 >>),
      [kind |-> "o", parts |-> << >>] }

Texts == UNION { [1..n -> ParseLines] : n \in 0..MaxLines }

InitText ==
    /\ InitSession
    /\ InitOrbit
    /\ text \in Texts
    /\ mesh = [done |-> FALSE, result |-> NoMesh]

\* new OBJLoader().parse(text), lines 243-350.
ParseText ==
    /\ ~mesh.done
    /\ mesh' = [done |-> TRUE, result |-> Parse(text)]
    /\ UNCHANGED << text, sessionVars, orbitVars, nEvents >>

NextParse == ParseText

SpecParse == InitText /\ [][NextParse]_vars

(***************************************************************************)
(* OBJLoader.parse applied to a text with vt and vn records.               *)
(***************************************************************************)
\* Three v records that span a triangle of the plane z = 0, a vt and a vn
\* record, and faces: positions only, '1/1 2 3/2' (a corner without a uv
\* index among corners with one), '1//1 2//1 3' (likewise for normals) and
\* the degenerate '1 1 2'.
AttrLines ==
    { VLine(0, 0, 0), VLine(10, 0, 0), VLine(0, 10, 0),
      VtLine(2, 3), VnLine(0, 0, 10),
      FLine(<< 1, 2, 3 >>),
      FLineCorners(<< << Num(1), Num(1), Undefined >>, << Num(2) >>,
                      << Num(3), Num(2), Undefined >> >>),
      FLineCorners(<< << Num(1), Empty, Num(1) >>,
                      << Num(2), Empty, Num(1) >>, << Num(3) >> >>),
      FLine(<< 1, 1, 2 >>) }

AttrTexts == UNION { [1..n -> AttrLines] : n \in 0..MaxLines }

InitAttr ==
    /\ InitSession
    /\ InitOrbit
    /\ text \in AttrTexts
    /\ mesh = [done |-> FALSE, result |-> NoMesh]

NextAttr == ParseText

SpecAttr == InitAttr /\ [][NextAttr]_vars

(***************************************************************************)
(* Properties of OBJLoader.load and of the viewer session.                 *)
(***************************************************************************)
LoadIds == 1..Len(loads)

\* C1: for every OBJLoader.load call, a finished load has had exactly one of
\* its success and error callbacks invoked, exactly once, and a load in
\* flight has had none; this includes a success callback that throws.
C1_ExactlyOneCallback ==
    \A i \in LoadIds :
        IF loads[i].pc = "done"
        THEN loads[i].onLoadCalls + loads[i].onErrorCalls = 1
        ELSE loads[i].onLoadCalls = 0 /\ loads[i].onErrorCalls = 0

\* C2: after any interleaving of loadOBJ requests and completions, the scene
\* holds at most one loaded model and that model is currentModel.
C2_SceneHoldsOnlyCurrentModel ==
    /\ Cardinality(sceneModels) <= 1
    /\ \A m \in sceneModels : IsObject(currentModel) /\ currentModel.id = m

\* C3: once a newer request's model is currentModel, the completion of an
\* older request changes neither currentModel nor the scene.
C3_StaleCompletionDiscarded ==
    [][\A i \in LoadIds :
          (/\ loads[i].pc = "inflight"
           /\ loads'[i].pc = "done"
           /\ IsObject(currentModel)
           /\ currentModel.id > i)
          => (currentModel' = currentModel /\ sceneModels' = sceneModels)]_vars

\* C4: every model that was attached and is no longer the current model has
\* been disposed, and every texture that was bound to a material and is no
\* longer a current texture has been disposed.
C4_DroppedResourcesDisposed ==
    /\ \A i \in LoadIds :
          (loads[i].onLoadCalls > 0
           /\ ~(IsObject(currentModel) /\ currentModel.id = i))
          => i \in disposedModels
    /\ \A t \in 1..Len(texLoads) :
          (/\ texLoads[t].applied
           /\ t # loadedTexture
           /\ ~(IsObject(currentModel) /\ loads[currentModel.id].map = t))
          => t \in disposedTextures

(***************************************************************************)
(* Properties of the orbit controller.                                     *)
(***************************************************************************)
\* C5: after every update(), following any sequence of pointer and wheel
\* events, the camera's polar angle is within [minPolarAngle, maxPolarAngle].
C5_PolarAngleInRange ==
    MinPolarAngle <= cameraPos.phi /\ cameraPos.phi <= MaxPolarAngle

\* A drag while Rotating has pushed the polar angle onto a pole, where it
\* was clamped.
C5_Witness ==
    /\ lastEvent.op = "mousemove"
    /\ lastEvent.from = "ROTATE"
    /\ cameraPos.phi \in { SphericalEPS, PI - SphericalEPS }

\* C6: after any sequence of wheel events, each followed by its update(),
\* the camera's distance to the target is within [minDistance, maxDistance].
C6_RadiusInRange ==
    MinDistance <= cameraPos.radius /\ cameraPos.radius <= MaxDistance

\* A wheel event has zoomed against a limit of the distance.
C6_Witness ==
    /\ lastEvent.op = "wheel"
    /\ cameraPos.radius \in { MinDistance, MaxDistance }

\* C7: the interaction mode changes only Idle -> Rotating on a primary
\* press, Idle -> Panning on a secondary press, and Rotating or Panning ->
\* Idle on a release; no press changes a mode that is Rotating or Panning
\* and a press of another button leaves the mode Idle.
C7_ModeTransitions ==
    [][state' # state =>
          \/ /\ state = "NONE"
             /\ state' = "ROTATE"
             /\ lastEvent'.op = "mousedown"
             /\ lastEvent'.button = 0
          \/ /\ state = "NONE"
             /\ state' = "PAN"
             /\ lastEvent'.op = "mousedown"
             /\ lastEvent'.button = 2
          \/ /\ state \in { "ROTATE", "PAN" }
             /\ state' = "NONE"
             /\ lastEvent'.op = "mouseup"]_vars

\* C8: update() runs exactly once per rendered frame: every render of the
\* animation loop finds exactly one update() since the render before it.
C8_OneUpdatePerFrame == updatesAtRender = 1

\* The magnitude bound under which a rounded decay no longer moves a value:
\* x * dampingFactor rounds to 0 for |x| at most this.
DecayFloor == 50 \div DampingPct

Decays(old, new) ==
    /\ Abs(new) <= Abs(old)
    /\ Abs(old) > DecayFloor => Abs(new) < Abs(old)

\* C9 as stated: with damping enabled and no input events, no update() of
\* the animation loop increases the magnitude of the pending rotation.
C9_PendingDeltaNeverGrows ==
    [][(Animate /\ enableDamping) =>
          /\ Abs(sphericalDelta'.theta) <= Abs(sphericalDelta.theta)
          /\ Abs(sphericalDelta'.phi) <= Abs(sphericalDelta.phi)]_vars

\* C9 amended: with damping enabled, no input events and no auto-rotate
\* injection (auto-rotate off, or the mode not Idle), every update() of the
\* animation loop leaves each component of the pending rotation no larger in
\* magnitude, and strictly smaller while it exceeds the rounding floor: the
\* pending rotation converges toward (0, 0).
C9_PendingDeltaDecays ==
    [][(Animate /\ enableDamping /\ ~(autoRotate /\ state = "NONE")) =>
          /\ Decays(sphericalDelta.theta, sphericalDelta'.theta)
          /\ Decays(sphericalDelta.phi, sphericalDelta'.phi)]_vars

\* A frame has decayed a pending rotation left by a drag, the button still
\* held.
C9_Witness ==
    /\ lastEvent.op = "animate"
    /\ state = "ROTATE"
    /\ enableDamping
    /\ Abs(sphericalDelta.phi) > DecayFloor
    /\ Abs(sphericalDelta.theta) > DecayFloor

(***************************************************************************)
(* Properties of OBJLoader.parse.                                          *)
(***************************************************************************)
IsV(line) == line.kind = "v"

IsF(line) == line.kind = "f"

\* The v records and the face lines of a text, in order.
VRecords(t) == SelectSeq(t, IsV)

FaceLines(t) == SelectSeq(t, IsF)

\* Every face line is a triangle whose position indices name a v record.
TrianglesInRange(t) ==
    \A k \in 1..Len(FaceLines(t)) :
        /\ Len(FaceLines(t)[k].parts) = 3
        /\ \A c \in 1..3 :
              /\ FaceLines(t)[k].parts[c][1].t = "num"
              /\ FaceLines(t)[k].parts[c][1].n \in 1..Len(VRecords(t))

\* The x, y, z of the v record named by each corner, in face and corner order.
CornerPositions(t) ==
    [p \in 1..(9 * Len(FaceLines(t))) |->
        LET q == (p - 1) \div 3   \* the corner, from 0
            corner == FaceLines(t)[(q \div 3) + 1].parts[(q % 3) + 1]
        IN  F(VRecords(t)[corner[1].n].parts[((p - 1) % 3) + 1].n)]

\* C10: for a text whose face lines are triangles with all position indices
\* in range, parse returns a position buffer that is the concatenation, in
\* face and corner order, of the x, y, z of the v record each corner names;
\* its length is 9 times the number of triangles.
C10_PositionBuffer ==
    (mesh.done /\ TrianglesInRange(text)) =>
        /\ ~mesh.result.threw
        /\ mesh.result.position = CornerPositions(text)
        /\ Len(mesh.result.position) = 9 * Len(FaceLines(text))

\* Four v lines and 'f 1 2 3' have given the 9 floats of vertices 1, 2, 3.
C10_Witness ==
    /\ mesh.done
    /\ text = << VLine(1, 2, 3), VLine(4, 5, 6), VLine(7, 8, 9),
                 VLine(4, 5, 6), FLine(<< 1, 2, 3 >>) >>
    /\ mesh.result.position = << F(1), F(2), F(3), F(4), F(5), F(6),
                                 F(7), F(8), F(9) >>


\* The face corners of a text, in order, as parse collects them.
RECURSIVE Flatten(_)
Flatten(ss) == IF ss = << >> THEN << >> ELSE Head(ss) \o Flatten(Tail(ss))

Corners(t) == Flatten([k \in 1..Len(FaceLines(t)) |-> FaceLines(t)[k].parts])

\* The position index of a corner names a v record of the text.
PositionInRange(t, corner) ==
    /\ Len(corner) >= 1
    /\ corner[1].t = "num"
    /\ corner[1].n \in 1..Len(VRecords(t))

InRangeCorners(t) ==
    SelectSeq(Corners(t), LAMBDA c : PositionInRange(t, c))

\* The x, y, z of the v records named by the corners cs, in order.
PositionsOf(t, cs) ==
    [p \in 1..(3 * Len(cs)) |->
        F(VRecords(t)[cs[((p - 1) \div 3) + 1][1].n].parts[((p - 1) % 3) + 1].n)]

\* C11: a corner whose position index is outside the vertex pool (above the
\* number of v records, zero or negative) is dropped without aborting:
\* parse returns a mesh whose position buffer holds every in-range corner,
\* in order, so its length is 3 times their number and is no multiple of 9
\* when the number of dropped corners is no multiple of 3.
C11_OutOfRangeCornerDropped ==
    (mesh.done /\ Len(Corners(text)) % 3 = 0) =>
        /\ ~mesh.result.threw
        /\ mesh.result.position = PositionsOf(text, InRangeCorners(text))
        /\ Len(mesh.result.position) = 3 * Len(InRangeCorners(text))
        /\ (Len(Corners(text)) - Len(InRangeCorners(text))) % 3 # 0
              => Len(mesh.result.position) % 9 # 0

\* Three v lines and 'f 1 2 4' have given the 6 floats of vertices 1 and 2.
C11_Witness ==
    /\ mesh.done
    /\ text = << VLine(1, 2, 3), VLine(4, 5, 6), VLine(7, 8, 9),
                 FLine(<< 1, 2, 4 >>) >>
    /\ ~mesh.result.threw
    /\ mesh.result.position = << F(1), F(2), F(3), F(4), F(5), F(6) >>


\* The v, vn and vt lines of a text that lack a numeric token parseFloat
\* accepts.
IsNumeric(tok) == tok.t = "num"

LineArity(line) == IF line.kind = "vt" THEN 2 ELSE 3

MalformedLine(line) ==
    /\ line.kind \in { "v", "vn", "vt" }
    /\ \/ Len(line.parts) < LineArity(line)
       \/ \E k \in 1..LineArity(line) : ~IsNumeric(line.parts[k])

HasMalformedLine(t) == \E k \in 1..Len(t) : MalformedLine(t[k])

\* C12: a load whose text has a v, vn or vt line with a malformed or missing
\* numeric token fails: when it is done its error callback was invoked, its
\* success callback was not, and no mesh of it is delivered or attached to
\* the scene.
C12_MalformedNumberFailsLoad ==
    \A i \in LoadIds :
        (loads[i].pc = "done" /\ HasMalformedLine(loads[i].text)) =>
            /\ loads[i].onErrorCalls = 1
            /\ loads[i].onLoadCalls = 0
            /\ i \notin sceneModels
            /\ currentModel # [kind |-> "object", id |-> i]


\* The zoom scale 1 multiplied by the dolly factor 0.95, and divided by it.
ScaleTimesFactor == RoundDiv(ScaleOne * DollyPct, 100)

ScaleOverFactor == RoundDiv(ScaleOne * 100, DollyPct)

\* The radius r scaled by sc and kept within [minDistance, maxDistance].
ScaledRadius(r, sc) ==
    Max(MinDistance, Min(MaxDistance, RoundDiv(r * sc, ScaleOne)))

\* C13 as stated: a wheel event with negative deltaY divides zoomScale by
\* 0.95, so that the radius grows on the update that follows, one with
\* positive deltaY multiplies it, so that the radius shrinks, and a zero
\* deltaY leaves it unchanged.
C13_NegativeWheelDivides ==
    [][\A dy \in WheelDeltas :
          (lastEvent'.op = "wheel" /\ MouseWheel(dy)) =>
              /\ dy < 0 => cameraPos'.radius =
                              ScaledRadius(cameraPos.radius, ScaleOverFactor)
              /\ dy > 0 => cameraPos'.radius =
                              ScaledRadius(cameraPos.radius, ScaleTimesFactor)
              /\ dy = 0 => cameraPos'.radius = cameraPos.radius]_vars

\* C13, amended: a wheel event with negative deltaY multiplies zoomScale by
\* 0.95, so that the update the handler runs shrinks the radius (never
\* below minDistance); one with positive deltaY divides zoomScale by 0.95, so
\* that the radius grows (never above maxDistance); a zero deltaY leaves
\* the radius unchanged. The update resets zoomScale to 1.
C13_NegativeWheelMultiplies ==
    [][\A dy \in WheelDeltas :
          (lastEvent'.op = "wheel" /\ MouseWheel(dy)) =>
              /\ dy < 0 =>
                    /\ cameraPos'.radius =
                          ScaledRadius(cameraPos.radius, ScaleTimesFactor)
                    /\ cameraPos'.radius <= cameraPos.radius
                    /\ cameraPos.radius > MinDistance
                          => cameraPos'.radius < cameraPos.radius
              /\ dy > 0 =>
                    /\ cameraPos'.radius =
                          ScaledRadius(cameraPos.radius, ScaleOverFactor)
                    /\ cameraPos'.radius >= cameraPos.radius
                    /\ cameraPos.radius < MaxDistance
                          => cameraPos'.radius > cameraPos.radius
              /\ dy = 0 => cameraPos'.radius = cameraPos.radius
              /\ scale' = ScaleOne]_vars

\* A wheel event with negative deltaY has taken the camera from the home
\* radius to 0.95 of it.
C13_Witness ==
    /\ lastEvent.op = "wheel"
    /\ cameraPos.radius = RoundDiv(HomeRadius * DollyPct, 100)
    /\ cameraPos.radius < HomeRadius


IsVt(line) == line.kind = "vt"

IsVn(line) == line.kind = "vn"

VtRecords(t) == SelectSeq(t, IsVt)

VnRecords(t) == SelectSeq(t, IsVn)

\* The uv (normal) index of a corner is present and names a vt (vn) record.
UVInRange(t, corner) ==
    /\ Len(corner) >= 2
    /\ corner[2].t = "num"
    /\ corner[2].n \in 1..Len(VtRecords(t))

NormalInRange(t, corner) ==
    /\ Len(corner) >= 3
    /\ corner[3].t = "num"
    /\ corner[3].n \in 1..Len(VnRecords(t))

\* The k-th corner of the position buffer carries the k-th pair of the uv
\* buffer: the u and the flipped v of the vt record it names.
UVAligned(t, m) ==
    LET cs == InRangeCorners(t)
    IN  /\ Len(m.uv) = 2 * Len(cs)
        /\ \A k \in 1..Len(cs) :
              /\ UVInRange(t, cs[k])
              /\ m.uv[2 * k - 1] = F(VtRecords(t)[cs[k][2].n].parts[1].n)
              /\ m.uv[2 * k] = F(One - VtRecords(t)[cs[k][2].n].parts[2].n)

\* The k-th corner of the position buffer carries the k-th triple of the
\* normal buffer: the vn record it names.
NormalAligned(t, m) ==
    LET cs == InRangeCorners(t)
    IN  /\ Len(m.normal) = 3 * Len(cs)
        /\ \A k \in 1..Len(cs) :
              /\ NormalInRange(t, cs[k])
              /\ \A a \in 1..3 :
                    m.normal[3 * (k - 1) + a] =
                        F(VnRecords(t)[cs[k][3].n].parts[a].n)

\* C14: the buffers of the mesh parse returns are corner-aligned: when the
\* uv buffer (the normal buffer taken from vn records) is present it holds
\* exactly one pair (triple) per corner of the position buffer, in the same
\* corner order, also for faces that mix corners with and without uv or
\* normal indices or with indices out of range.
C14_BuffersCornerAligned ==
    (mesh.done /\ ~mesh.result.threw) =>
        /\ mesh.result.hasUV => UVAligned(text, mesh.result)
        /\ mesh.result.hasNormalAttr => NormalAligned(text, mesh.result)


\* The per-frame increment 2 * pi / 3600 * autoRotateSpeed, in angle units.
PerFrameIncrement == (2 * PI * AutoRotateSpeedTenths) \div (3600 * 10)

\* C15: with auto-rotate enabled, damping disabled, the mode Idle and no
\* input, n consecutive update() calls have advanced the azimuthal angle by
\* n times the per-frame increment (in magnitude), and 60 calls by
\* 2 * pi / 60 * autoRotateSpeed in total.
C15_SixtyUpdatesAdvanceAzimuth ==
    (autoRotate /\ ~enableDamping /\ state = "NONE") =>
        /\ Abs(cameraPos.theta - HomeCamera.theta) =
              updatesSinceRender * PerFrameIncrement
        /\ updatesSinceRender = 60 =>
              Abs(cameraPos.theta - HomeCamera.theta) =
                  (2 * PI * AutoRotateSpeedTenths) \div (60 * 10)
        /\ sphericalDelta.theta = 0

\* 60 update() calls were made with auto-rotate on and damping off.
C15_Witness ==
    /\ autoRotate
    /\ ~enableDamping
    /\ state = "NONE"
    /\ updatesSinceRender = 60
    /\ cameraPos.theta = HomeCamera.theta - 60 * PerFrameIncrement
    /\ PerFrameIncrement > 0


\* The corners that name a vt record of the text, in order.
UVCorners(t) == SelectSeq(Corners(t), LAMBDA c : UVInRange(t, c))

\* C16: for every vt record with V in [0,1] that a face corner references,
\* the V written to the uv buffer is 1.0 minus the source V and the U is the
\* source U: the uv buffer is, corner by corner, (U, 1 - V) of the record
\* the corner names.
C16_VFlipped ==
    (mesh.done /\ ~mesh.result.threw) =>
        LET cs == UVCorners(text)
            vt(k) == VtRecords(text)[cs[k][2].n].parts
        IN  /\ Len(mesh.result.uv) = 2 * Len(cs)
            /\ \A k \in 1..Len(cs) :
                  (vt(k)[2].n \in 0..One) =>
                      /\ mesh.result.uv[2 * k - 1] = F(vt(k)[1].n)
                      /\ mesh.result.uv[2 * k] = F(One - vt(k)[2].n)

\* 'vt 0.2 0.3' referenced by a corner has given the pair (0.2, 0.7).
C16_Witness ==
    /\ mesh.done
    /\ ~mesh.result.threw
    /\ VtLine(2, 3) \in { text[k] : k \in 1..Len(text) }
    /\ mesh.result.hasUV
    /\ mesh.result.uv[1] = F(2)
    /\ mesh.result.uv[2] = F(7)


\* The k-th triple of a buffer of triples.
Triple(buf, k) == << buf[3 * k - 2], buf[3 * k - 1], buf[3 * k] >>

IsNumber(x) == ~x.nan

\* The triangle g (counted from 0) of a position buffer has its three
\* corners in the buffer.
CompleteTriangle(position, g) == 9 * (g + 1) <= Len(position)

\* (B - A) x (C - A) for the corners A, B, C of a complete triangle.
EdgeCross(position, g) ==
    LET a == Triple(position, 3 * g + 1)
        b == Triple(position, 3 * g + 2)
        c == Triple(position, 3 * g + 3)
        u == [i \in 1..3 |-> b[i].v - a[i].v]
        w == [i \in 1..3 |-> c[i].v - a[i].v]
    IN  << u[2] * w[3] - u[3] * w[2], u[3] * w[1] - u[1] * w[3],
           u[1] * w[2] - u[2] * w[1] >>

UnitLength(n) ==
    /\ \A i \in 1..3 : IsNumber(n[i])
    /\ n[1].v * n[1].v + n[2].v * n[2].v + n[3].v * n[3].v = One * One

\* n is the unit vector along the vector e.
UnitAlong(n, e) ==
    /\ UnitLength(n)
    /\ n[2].v * e[3] = n[3].v * e[2]
    /\ n[3].v * e[1] = n[1].v * e[3]
    /\ n[1].v * e[2] = n[2].v * e[1]
    /\ n[1].v * e[1] + n[2].v * e[2] + n[3].v * e[3] > 0

\* C17 as stated: when the text has no vn records the mesh parse returns has
\* a non-empty normal buffer in which every normal has unit length, also for
\* a text without faces or with degenerate triangles.
C17_NormalsNonEmptyAndUnit ==
    (mesh.done /\ ~mesh.result.threw /\ VnRecords(text) = << >>) =>
        /\ Len(mesh.result.normal) > 0
        /\ \A k \in 1..(Len(mesh.result.normal) \div 3) :
              UnitLength(Triple(mesh.result.normal, k))

\* C17, amended: when the text has no vn records (and its v lines are
\* numeric) the normal buffer holds one normal per corner of the position
\* buffer, so it is empty when no corner was emitted; the corners of every
\* three consecutive corners that span a triangle with area carry the unit
\* normal of that triangle by right-hand winding; the corners of a
\* triangle without area carry no unit normal (the zero vector), and the
\* corners of a trailing incomplete group carry NaN.
C17_NormalsPerCorner ==
    (mesh.done /\ ~mesh.result.threw /\ VnRecords(text) = << >>) =>
        LET P == mesh.result.position
            N == mesh.result.normal
        IN  /\ ~mesh.result.hasNormalAttr
            /\ Len(N) = Len(P)
            /\ \A k \in 1..(Len(P) \div 3) :
                  LET g == (k - 1) \div 3
                  IN  IF ~CompleteTriangle(P, g)
                      THEN \A i \in 1..3 : Triple(N, k)[i].nan
                      ELSE IF EdgeCross(P, g) = << 0, 0, 0 >>
                      THEN Triple(N, k) = << F(0), F(0), F(0) >>
                      ELSE UnitAlong(Triple(N, k), EdgeCross(P, g))

\* A triangle with area followed by a degenerate one, without vn records:
\* three normals (0, 0, 1), then three zero vectors.
C17_Witness ==
    /\ mesh.done
    /\ ~mesh.result.threw
    /\ text = << VLine(0, 0, 0), VLine(10, 0, 0), VLine(0, 10, 0),
                 FLine(<< 1, 2, 3 >>), FLine(<< 1, 1, 2 >>) >>
    /\ \A k \in 1..3 : Triple(mesh.result.normal, k) = << F(0), F(0), F(One) >>
    /\ \A k \in 4..6 : Triple(mesh.result.normal, k) = << F(0), F(0), F(0) >>


\* The pending rotation and the camera's azimuth after a pointer-move in
\* mode Rotating that subtracts the angles dTheta and dPhi from the pending
\* rotation, applies it with update() and damps it.
RotateMoveResult(p, dTheta, dPhi) ==
    /\ cameraPos'.theta =
          WrapAngle(cameraPos.theta + sphericalDelta.theta - dTheta)
    /\ sphericalDelta'.theta =
          RoundDiv((sphericalDelta.theta - dTheta) * (100 - DampingPct), 100)
    /\ sphericalDelta'.phi =
          RoundDiv((sphericalDelta.phi - dPhi) * (100 - DampingPct), 100)
    /\ rotateStart' = p

\* C18 as stated: a pointer-move while Rotating with pixel delta (dx, dy)
\* since the last sampled position subtracts exactly
\* 2 * pi * dx / viewportHeight from the pending azimuthal delta and
\* 2 * pi * dy / viewportHeight from the pending polar delta, then sets the
\* reference position to the pointer position.
C18_RotateByFullPixelDelta ==
    [][\A p \in Pointers :
          (state = "ROTATE" /\ MouseMove(p)) =>
              RotateMoveResult(
                  p,
                  RoundDiv(2 * PI * (p.x - rotateStart.x), ClientHeight),
                  RoundDiv(2 * PI * (p.y - rotateStart.y), ClientHeight))]_vars

\* C18, amended: a pointer-move while Rotating with pixel delta (dx, dy)
\* subtracts pi * dx / viewportHeight (2 * pi * 0.5 * dx / viewportHeight)
\* from the pending azimuthal delta and pi * dy / viewportHeight from the
\* pending polar delta, sets the reference position to the pointer position
\* and runs update(), which applies the pending delta to the camera and
\* damps it.
C18_RotateByHalfPixelDelta ==
    [][\A p \in Pointers :
          (state = "ROTATE" /\ MouseMove(p)) =>
              RotateMoveResult(
                  p,
                  RoundDiv(PI * (p.x - rotateStart.x), ClientHeight),
                  RoundDiv(PI * (p.y - rotateStart.y), ClientHeight))]_vars

\* A pointer-move in mode Rotating over 40 pixels to the right, from a
\* pending rotation of 0, has left the damped angle pi * 40 / viewportHeight.
C18_Witness ==
    /\ lastEvent.op = "mousemove"
    /\ lastEvent.from = "ROTATE"
    /\ rotateStart = [x |-> 40, y |-> ClientHeight]
    /\ sphericalDelta.theta =
          RoundDiv(-RoundDiv(PI * 40, ClientHeight) * (100 - DampingPct), 100)
    /\ sphericalDelta.theta # 0


\* C19: when the number of face corners of the text is not a multiple of 3
\* (a quad 'f 1 2 3 4'), parse throws while resolving the last, incomplete
\* group: the transfer that ends with status 200 ends the load with the
\* error callback invoked once, the success callback not invoked and no
\* model attached by it (the scene and the current model stay as they were).
C19_IncompleteGroupFailsLoad ==
    [][\A i \in LoadIds :
          (/\ loads[i].pc = "inflight"
           /\ Len(Corners(loads[i].text)) % 3 # 0
           /\ XhrOnLoad(i, TRUE, FALSE)) =>
              /\ loads'[i].pc = "done"
              /\ loads'[i].onErrorCalls = 1
              /\ loads'[i].onLoadCalls = 0
              /\ i \notin sceneModels'
              /\ sceneModels' = sceneModels
              /\ currentModel' = currentModel]_vars

\* A load of the quad has ended with the error callback.
C19_Witness ==
    \E i \in LoadIds :
        /\ loads[i].text = Quad
        /\ Len(Corners(Quad)) = 4
        /\ loads[i].pc = "done"
        /\ loads[i].onErrorCalls = 1
        /\ loads[i].onLoadCalls = 0
        /\ i \notin sceneModels


\* C20: while an OBJ load started by loadOBJ is in flight (requested and
\* neither completed nor failed) the loading overlay stays shown, for any
\* interleaving with texture loads and with the delayed hide timer of an
\* earlier completed load.
C20_OverlayShownWhileLoading ==
    (\E i \in LoadIds : loads[i].pc = "inflight") => loadingShown

====
